---- MODULE Spec2Model ----
(***************************************************************************)
(* Fetch-group construction of the federated query planner:               *)
(*   query-planner/src/groups.rs   FetchGroup and the three group         *)
(*                                 selectors (Parallel, Serial, SubField) *)
(*   query-planner/src/helpers.rs  the selection merger and               *)
(*                                 build_possible_types                   *)
(* A LinkedHashMap is a sequence of [key, value] entries in insertion     *)
(* order.  A `&mut FetchGroup` handle is the path of keys that leads from *)
(* the selector's root group to the group.                                *)
(***************************************************************************)
EXTENDS Integers, Sequences, FiniteSets, TLC

VARIABLES
    parent_group,   \* GroupForSubField.parent_group
    groups,         \* SerialGroupForField.groups
    groups_map,     \* ParallelGroupForField.groups_map
    returned,       \* the handle the last group_for_field call returned, with
                    \* the field it was called for; <<>> once the caller used it
    requests,       \* log of the dependent_group_for_service calls
    ncalls,         \* number of calls made so far
    panicked,       \* an unreachable!() was hit
    merge_fields,   \* the argument of merge_selection_sets
    merge_result,   \* the items of the selection set it returned
    merge_again,    \* the items returned for the result merged once more
    merge_pc,       \* "input", "merged" or "remerged"
    schema,         \* build_possible_types: the type definitions of the
                    \* schema document, in document order
    implementing_types, \* the map being built: name -> list of object names
    td,             \* index in ordered_types of the definition of the for loop
    queue,          \* the VecDeque of interface names of the while loop
    bpt_pc          \* "idle", "for", "while" or "returned"

selectorVars == <<parent_group, groups, groups_map, returned, requests, ncalls, panicked>>

mergeVars == <<merge_fields, merge_result, merge_again, merge_pc>>

possibleVars == <<schema, implementing_types, td, queue, bpt_pc>>

vars == <<parent_group, groups, groups_map, returned, requests, ncalls, panicked,
          merge_fields, merge_result, merge_again, merge_pc,
          schema, implementing_types, td, queue, bpt_pc>>

\* build_possible_types has not been called.
PossibleTypesIdle ==
    /\ schema = <<>>
    /\ implementing_types = <<>>
    /\ td = 1
    /\ queue = <<>>
    /\ bpt_pc = "idle"

(***************************************************************************)
(* Bounds.                                                                 *)
(***************************************************************************)
MaxCalls == 3
MaxDepth == 2

(***************************************************************************)
(* Federation metadata (QueryPlanningContext / federation): a composed     *)
(* schema over three services.                                             *)
(*   User     entity, base accounts; keyed by id at accounts and reviews,  *)
(*            no @key at products; reviews is an extension field of the    *)
(*            reviews service                                              *)
(*   Product  entity, base products; keyed by upc everywhere;              *)
(*            shippingEstimate is an extension field of the reviews        *)
(*            service with @requires(fields: "price")                      *)
(*   Image    value type                                                   *)
(*   Node     interface, not a value type                                  *)
(*   SearchResult  union, not a value type                                 *)
(*   Query, Mutation  root object types; their fields are listed with the  *)
(*            root selectors                                               *)
(***************************************************************************)
TYPENAME_FIELD_NAME == "__typename"

Services == {"accounts", "reviews", "products"}

TypeKind(type) ==
    CASE type = "Node"         -> "Interface"
      [] type = "SearchResult" -> "Union"
      [] OTHER                 -> "Object"

is_value_type(type) == type = "Image"

get_base_service(type) ==
    CASE type = "User"    -> "accounts"
      [] type = "Product" -> "products"

get_owning_service(type, name) ==
    CASE type = "User" /\ name = "reviews"                    -> "reviews"
      [] type = "Product" /\ name = "shippingEstimate"        -> "reviews"
      [] name \in {"me", "users", "createUser", "deleteUser"} -> "accounts"
      [] name \in {"topReviews", "createReview"}              -> "reviews"
      [] name \in {"topProducts", "createProduct"}            -> "products"
      [] OTHER                                                -> get_base_service(type)

\* An entry of a FieldSet: the scope's parent type and the field definition's name.
FieldOf(type, name) == [parent_type |-> type, name |-> name]

KeyNames(type, service) ==
    CASE type = "User" /\ service \in {"accounts", "reviews"} -> <<"id">>
      [] type = "Product"                                     -> <<"upc">>
      [] OTHER                                                -> <<>>

get_key_fields(type, service) ==
    <<FieldOf(type, TYPENAME_FIELD_NAME)>> \o
    [i \in 1..Len(KeyNames(type, service)) |-> FieldOf(type, KeyNames(type, service)[i])]

RequiresNames(type, name) ==
    IF type = "Product" /\ name = "shippingEstimate" THEN <<"price">> ELSE <<>>

get_required_fields(type, name, service) ==
    get_key_fields(type, service) \o
    [i \in 1..Len(RequiresNames(type, name)) |-> FieldOf(type, RequiresNames(type, name)[i])]

(***************************************************************************)
(* LinkedHashMap.                                                          *)
(***************************************************************************)
contains_key(map, k) == \E i \in 1..Len(map) : map[i].key = k

index_of(map, k) == CHOOSE i \in 1..Len(map) : map[i].key = k

\* Mutant: insert() in place of entry().or_insert_with(): a present key's value
\* is replaced by the fresh one.
entry_or_insert_with_Replace(map, k, v) ==
    IF contains_key(map, k)
    THEN [map EXCEPT ![index_of(map, k)].value = v]
    ELSE Append(map, [key |-> k, value |-> v])

\* Mutant: a present key is moved to the back, as a refreshing lookup does.
entry_or_insert_with_Refresh(map, k, v) ==
    IF contains_key(map, k)
    THEN SelectSeq(map, LAMBDA e : e.key # k) \o <<map[index_of(map, k)]>>
    ELSE Append(map, [key |-> k, value |-> v])

entry_or_insert_with(map, k, v) ==
    IF contains_key(map, k) THEN map ELSE Append(map, [key |-> k, value |-> v])

keys(map) == [i \in 1..Len(map) |-> map[i].key]

values(map) == [i \in 1..Len(map) |-> map[i].value]

(***************************************************************************)
(* FetchGroup.                                                             *)
(***************************************************************************)
FetchGroup_new(service_name, merge_at, provided_fields) ==
    [ service_name                |-> service_name,
      merge_at                    |-> merge_at,
      provided_fields             |-> provided_fields,
      fields                      |-> <<>>,
      internal_fragments          |-> <<>>,
      required_fields             |-> <<>>,
      dependent_groups_by_service |-> <<>>,
      other_dependent_groups      |-> <<>> ]

FetchGroup_init(service_name) == FetchGroup_new(service_name, <<>>, <<>>)

\* Mutant: the required fields are not added to the parent's fields.
dependent_group_for_service_ParentNotExtended(self, service, required_fields) ==
    LET map   == entry_or_insert_with(self.dependent_groups_by_service,
                                      service, FetchGroup_init(service))
        i     == index_of(map, service)
        group == map[i].value
        g1    == IF group.merge_at = <<>>
                 THEN [group EXCEPT !.merge_at = self.merge_at]
                 ELSE group
        g2    == IF required_fields # <<>>
                 THEN [g1 EXCEPT !.required_fields = @ \o required_fields]
                 ELSE g1
    IN  [self EXCEPT !.dependent_groups_by_service = [map EXCEPT ![i].value = g2]]

\* Mutant: the dependent does not inherit the parent's merge_at.
dependent_group_for_service_NoInherit(self, service, required_fields) ==
    LET map   == entry_or_insert_with(self.dependent_groups_by_service,
                                      service, FetchGroup_init(service))
        i     == index_of(map, service)
        group == map[i].value
        g2    == IF required_fields # <<>>
                 THEN [group EXCEPT !.required_fields = @ \o required_fields]
                 ELSE group
    IN  [self EXCEPT
            !.dependent_groups_by_service = [map EXCEPT ![i].value = g2],
            !.fields = IF required_fields # <<>> THEN @ \o required_fields ELSE @]

\* self after the call; the group the call returns is the entry under `service`.
dependent_group_for_service(self, service, required_fields) ==
    LET map   == entry_or_insert_with(self.dependent_groups_by_service,
                                      service, FetchGroup_init(service))
        i     == index_of(map, service)
        group == map[i].value
        g1    == IF group.merge_at = <<>>
                 THEN [group EXCEPT !.merge_at = self.merge_at]
                 ELSE group
        g2    == IF required_fields # <<>>
                 THEN [g1 EXCEPT !.required_fields = @ \o required_fields]
                 ELSE g1
    IN  [self EXCEPT
            !.dependent_groups_by_service = [map EXCEPT ![i].value = g2],
            !.fields = IF required_fields # <<>> THEN @ \o required_fields ELSE @]

(***************************************************************************)
(* Handles: the group a path of keys leads to, and updates through it.     *)
(***************************************************************************)
RECURSIVE group_at(_, _)
group_at(g, path) ==
    IF path = <<>> THEN g
    ELSE LET map == g.dependent_groups_by_service
         IN  group_at(map[index_of(map, Head(path))].value, Tail(path))

RECURSIVE paths_of(_)
paths_of(g) ==
    LET map == g.dependent_groups_by_service
    IN  {<<>>} \cup UNION { { <<map[i].key>> \o p : p \in paths_of(map[i].value) }
                            : i \in 1..Len(map) }

RECURSIVE all_groups(_)
all_groups(g) ==
    LET map == g.dependent_groups_by_service
    IN  {g} \cup UNION { all_groups(map[i].value) : i \in 1..Len(map) }

RECURSIVE dependent_group_for_service_at(_, _, _, _)
dependent_group_for_service_at(g, path, service, required_fields) ==
    IF path = <<>> THEN dependent_group_for_service(g, service, required_fields)
    ELSE LET map == g.dependent_groups_by_service
             i   == index_of(map, Head(path))
         IN  [g EXCEPT !.dependent_groups_by_service[i].value =
                 dependent_group_for_service_at(@, Tail(path), service, required_fields)]

RECURSIVE push_field_at(_, _, _)
push_field_at(g, path, field) ==
    IF path = <<>> THEN [g EXCEPT !.fields = Append(@, field)]
    ELSE LET map == g.dependent_groups_by_service
             i   == index_of(map, Head(path))
         IN  [g EXCEPT !.dependent_groups_by_service[i].value =
                 push_field_at(@, Tail(path), field)]

(***************************************************************************)
(* GroupForSubField::group_for_field.  The result holds the selector's     *)
(* parent_group after the call, the handle returned, the                   *)
(* dependent_group_for_service calls made, and whether unreachable!() was  *)
(* hit.                                                                    *)
(***************************************************************************)
Result(g, path, reqs) ==
    [parent_group |-> g, group |-> path, reqs |-> reqs, panic |-> FALSE]

Unreachable(g) ==
    [parent_group |-> g, group |-> <<>>, reqs |-> <<>>, panic |-> TRUE]

Request(path, service) == [self |-> path, service |-> service]

is_provided(self, name) ==
    \E i \in 1..Len(self.provided_fields) : self.provided_fields[i] = name

\* Mutant: every base-service field stays in the parent group.
SubField_non_extension_AlwaysParent(self, parent_type, name, owning_service) ==
    Result(self, <<>>, <<>>)

\* Mutant: no fall back to the owning service's keys.
NonExtensionDependent_NoFallback(self, parent_type, owning_service) ==
    LET key_fields == get_key_fields(parent_type, self.service_name)
    IN  Result(dependent_group_for_service(self, owning_service, key_fields),
               <<owning_service>>,
               <<Request(<<>>, owning_service)>>)

\* The dependent fetch of the non-extension path (groups.rs 222-244).
NonExtensionDependent(self, parent_type, owning_service) ==
    LET parent_keys == get_key_fields(parent_type, self.service_name)
        key_fields  ==
            IF Len(parent_keys) = 1 /\ parent_keys[1].name = TYPENAME_FIELD_NAME
            THEN get_key_fields(parent_type, owning_service)
            ELSE parent_keys
    IN  Result(dependent_group_for_service(self, owning_service, key_fields),
               <<owning_service>>,
               <<Request(<<>>, owning_service)>>)

\* Mutant: only a provided field stays in the parent group.
SubField_non_extension_OnlyProvided(self, parent_type, name, owning_service) ==
    IF is_provided(self, name)
    THEN Result(self, <<>>, <<>>)
    ELSE NonExtensionDependent(self, parent_type, owning_service)

\* Mutant: provided_fields is not consulted.
SubField_non_extension_OnlyOwning(self, parent_type, name, owning_service) ==
    IF owning_service = self.service_name
    THEN Result(self, <<>>, <<>>)
    ELSE NonExtensionDependent(self, parent_type, owning_service)

SubField_non_extension(self, parent_type, name, owning_service) ==
    IF owning_service = self.service_name \/ is_provided(self, name)
    THEN Result(self, <<>>, <<>>)
    ELSE NonExtensionDependent(self, parent_type, owning_service)

\* The three dependent fetches of the extension path.
ExtensionDirect(self, owning_service, required_fields) ==
    Result(dependent_group_for_service(self, owning_service, required_fields),
           <<owning_service>>,
           <<Request(<<>>, owning_service)>>)

ExtensionChain(self, parent_type, base_service, owning_service, required_fields) ==
    LET key_fields == get_key_fields(parent_type, self.service_name)
    IN  Result(dependent_group_for_service_at(
                   dependent_group_for_service(self, base_service, key_fields),
                   <<base_service>>, owning_service, required_fields),
               <<base_service, owning_service>>,
               <<Request(<<>>, base_service),
                 Request(<<base_service>>, owning_service)>>)

\* Mutant: the chain is collapsed, the owning group hangs off the parent.
SubField_extension_Collapsed(self, parent_type, name, base_service, owning_service) ==
    LET required_fields == get_required_fields(parent_type, name, owning_service)
        all_required_fields_are_provided ==
            \A j \in 1..Len(required_fields) : is_provided(self, required_fields[j].name)
    IN  IF all_required_fields_are_provided /\ owning_service = self.service_name
        THEN Result(self, <<>>, <<>>)
        ELSE ExtensionDirect(self, owning_service, required_fields)

\* Mutant: the base service is not compared with the parent's, every
\* extension field whose required fields are not provided goes through the
\* chain.
SubField_extension_AlwaysChain(self, parent_type, name, base_service, owning_service) ==
    LET required_fields == get_required_fields(parent_type, name, owning_service)
        all_required_fields_are_provided ==
            \A j \in 1..Len(required_fields) : is_provided(self, required_fields[j].name)
    IN  IF all_required_fields_are_provided
        THEN IF owning_service = self.service_name
             THEN Result(self, <<>>, <<>>)
             ELSE ExtensionDirect(self, owning_service, required_fields)
        ELSE ExtensionChain(self, parent_type, base_service, owning_service,
                            required_fields)

\* Mutant: provided_fields is not consulted for the required fields.
SubField_extension_IgnoreProvided(self, parent_type, name, base_service, owning_service) ==
    LET required_fields == get_required_fields(parent_type, name, owning_service)
    IN  IF base_service = self.service_name
        THEN ExtensionDirect(self, owning_service, required_fields)
        ELSE ExtensionChain(self, parent_type, base_service, owning_service,
                            required_fields)

SubField_extension(self, parent_type, name, base_service, owning_service) ==
    LET required_fields == get_required_fields(parent_type, name, owning_service)
        all_required_fields_are_provided ==
            \A j \in 1..Len(required_fields) : is_provided(self, required_fields[j].name)
    IN  IF all_required_fields_are_provided
        THEN IF owning_service = self.service_name
             THEN Result(self, <<>>, <<>>)
             ELSE Result(dependent_group_for_service(self, owning_service, required_fields),
                         <<owning_service>>,
                         <<Request(<<>>, owning_service)>>)
        ELSE IF base_service = self.service_name
             THEN Result(dependent_group_for_service(self, owning_service, required_fields),
                         <<owning_service>>,
                         <<Request(<<>>, owning_service)>>)
             ELSE LET key_fields == get_key_fields(parent_type, self.service_name)
                  IN  Result(dependent_group_for_service_at(
                                 dependent_group_for_service(self, base_service, key_fields),
                                 <<base_service>>, owning_service, required_fields),
                             <<base_service, owning_service>>,
                             <<Request(<<>>, base_service),
                               Request(<<base_service>>, owning_service)>>)

\* Mutant: __typename is routed like any other field.
SubField_group_for_field_NoTypename(self, parent_type, name) ==
    IF ~is_value_type(parent_type) /\ TypeKind(parent_type) # "Object"
    THEN Unreachable(self)
    ELSE LET base_service   == IF is_value_type(parent_type) THEN self.service_name
                               ELSE get_base_service(parent_type)
             owning_service == IF is_value_type(parent_type) THEN self.service_name
                               ELSE get_owning_service(parent_type, name)
         IN  IF owning_service = base_service
             THEN SubField_non_extension(self, parent_type, name, owning_service)
             ELSE SubField_extension(self, parent_type, name, base_service, owning_service)

SubField_group_for_field(self, parent_type, name) ==
    IF name = TYPENAME_FIELD_NAME THEN Result(self, <<>>, <<>>)
    ELSE IF ~is_value_type(parent_type) /\ TypeKind(parent_type) # "Object"
    THEN Unreachable(self)
    ELSE LET base_service   == IF is_value_type(parent_type) THEN self.service_name
                               ELSE get_base_service(parent_type)
             owning_service == IF is_value_type(parent_type) THEN self.service_name
                               ELSE get_owning_service(parent_type, name)
         IN  IF owning_service = base_service
             THEN SubField_non_extension(self, parent_type, name, owning_service)
             ELSE SubField_extension(self, parent_type, name, base_service, owning_service)

(***************************************************************************)
(* The sub-field selector: construction and steps.  The parent group is    *)
(* a group made by FetchGroup::init or by FetchGroup::new for a            *)
(* sub-selection.                                                          *)
(***************************************************************************)
\* The response path and the provided fields of a sub-selection's group.
SubFieldPath == <<"me">>

SubFieldProvided == <<"__typename", "id", "name", "upc">>

\* The (service, required_fields) arguments of the direct calls.
DirectInputs ==
    (Services \X {<<>>}) \cup { <<"products", <<FieldOf("Product", "upc")>> >> }

SubFieldInputs ==
    { <<"User", "__typename">>, <<"User", "name">>, <<"User", "reviews">>,
      <<"Product", "price">>, <<"Product", "shippingEstimate">>,
      <<"Image", "__typename">>, <<"Image", "url">>,
      <<"Node", "__typename">>, <<"Node", "id">>,
      <<"SearchResult", "__typename">> }

Init ==
    /\ \E s \in Services :
           \/ parent_group = FetchGroup_init(s)
           \/ parent_group = FetchGroup_new(s, SubFieldPath, SubFieldProvided)
    /\ groups = <<>>
    /\ groups_map = <<>>
    /\ returned = <<>>
    /\ requests = <<>>
    /\ ncalls = 0
    /\ panicked = FALSE
    /\ merge_fields = <<>>
    /\ merge_result = <<>>
    /\ merge_again = <<>>
    /\ merge_pc = "input"
    /\ PossibleTypesIdle

\* GroupForSubField::group_for_field(parent_type, field_def)
GroupForField(parent_type, name) ==
    /\ ~panicked
    /\ returned = <<>>
    /\ ncalls < MaxCalls
    /\ LET r == SubField_group_for_field(parent_group, parent_type, name)
       IN  IF r.panic
           THEN /\ panicked' = TRUE
                /\ UNCHANGED <<parent_group, returned, requests, ncalls>>
           ELSE /\ parent_group' = r.parent_group
                /\ returned' = <<[parent_type |-> parent_type, name |-> name,
                                  group |-> r.group]>>
                /\ requests' = requests \o r.reqs
                /\ ncalls' = ncalls + 1
                /\ UNCHANGED panicked
    /\ UNCHANGED <<groups, groups_map>>
    /\ UNCHANGED mergeVars
    /\ UNCHANGED possibleVars

\* The caller records the routed field in the group it was handed.
AppendField ==
    /\ returned # <<>>
    /\ parent_group' = push_field_at(parent_group, returned[1].group,
                                     FieldOf(returned[1].parent_type, returned[1].name))
    /\ returned' = <<>>
    /\ UNCHANGED <<groups, groups_map, requests, ncalls, panicked>>
    /\ UNCHANGED mergeVars
    /\ UNCHANGED possibleVars

\* FetchGroup::dependent_group_for_service called on any group of the tree.
DependentGroupForService(path, service, required_fields) ==
    /\ ~panicked
    /\ returned = <<>>
    /\ ncalls < MaxCalls
    /\ path \in paths_of(parent_group)
    /\ Len(path) < MaxDepth
    /\ parent_group' = dependent_group_for_service_at(parent_group, path, service,
                                                      required_fields)
    /\ requests' = Append(requests, Request(path, service))
    /\ ncalls' = ncalls + 1
    /\ UNCHANGED <<groups, groups_map, returned, panicked>>
    /\ UNCHANGED mergeVars
    /\ UNCHANGED possibleVars

Next ==
    \/ \E in \in SubFieldInputs : GroupForField(in[1], in[2])
    \/ AppendField
    \/ \E path \in paths_of(parent_group), in \in DirectInputs :
           DependentGroupForService(path, in[1], in[2])

Spec == Init /\ [][Next]_vars

(***************************************************************************)
(* The root selectors.  Root fields:                                       *)
(*   Query     me, users on accounts; topReviews on reviews; topProducts   *)
(*             on products                                                 *)
(*   Mutation  createUser, deleteUser on accounts; createReview on         *)
(*             reviews; createProduct on products                          *)
(***************************************************************************)
RootResult(state, handle) == [state |-> state, group |-> handle, panic |-> FALSE]

RootUnreachable(state) == [state |-> state, group |-> <<>>, panic |-> TRUE]

\* Mutant: any group of the service is reused, not only the last one.
Serial_group_for_field_AnyGroup(self_groups, parent_type, name) ==
    IF TypeKind(parent_type) # "Object" THEN RootUnreachable(self_groups)
    ELSE LET service_name == get_owning_service(parent_type, name)
             found == { i \in 1..Len(self_groups) :
                            self_groups[i].service_name = service_name }
         IN  IF found # {}
             THEN RootResult(self_groups, CHOOSE i \in found : \A j \in found : i <= j)
             ELSE RootResult(Append(self_groups, FetchGroup_init(service_name)),
                             Len(self_groups) + 1)

\* SerialGroupForField::group_for_field: the handle is the index of the group.
Serial_group_for_field(self_groups, parent_type, name) ==
    IF TypeKind(parent_type) # "Object" THEN RootUnreachable(self_groups)
    ELSE LET service_name == get_owning_service(parent_type, name)
             pushed ==
                 IF Len(self_groups) > 0
                    /\ self_groups[Len(self_groups)].service_name = service_name
                 THEN self_groups
                 ELSE Append(self_groups, FetchGroup_init(service_name))
         IN  RootResult(pushed, Len(pushed))

Serial_into_groups(self_groups) == self_groups

\* Mutant: insert() in place of entry().or_insert_with(): the group of a
\* service seen before is replaced by a fresh one.
Parallel_group_for_field_Replace(self_groups_map, parent_type, name) ==
    IF TypeKind(parent_type) # "Object" THEN RootUnreachable(self_groups_map)
    ELSE LET service_name == get_owning_service(parent_type, name)
         IN  RootResult(entry_or_insert_with_Replace(self_groups_map, service_name,
                                                     FetchGroup_init(service_name)),
                        service_name)

\* ParallelGroupForField::group_for_field: the handle is the key of the group.
Parallel_group_for_field(self_groups_map, parent_type, name) ==
    IF TypeKind(parent_type) # "Object" THEN RootUnreachable(self_groups_map)
    ELSE LET service_name == get_owning_service(parent_type, name)
         IN  RootResult(entry_or_insert_with(self_groups_map, service_name,
                                             FetchGroup_init(service_name)),
                        service_name)

Parallel_into_groups(self_groups_map) == values(self_groups_map)

SubField_into_groups(self_parent_group) == <<self_parent_group>>

Call(parent_type, name, service) ==
    [parent_type |-> parent_type, name |-> name, service |-> service]

MutationInputs ==
    { <<"Mutation", "createUser">>, <<"Mutation", "deleteUser">>,
      <<"Mutation", "createReview">>, <<"Mutation", "createProduct">>,
      <<"Node", "id">> }

QueryInputs ==
    { <<"Query", "me">>, <<"Query", "users">>, <<"Query", "topReviews">>,
      <<"Query", "topProducts">>, <<"Node", "id">> }

InitRoot ==
    /\ parent_group = FetchGroup_init("accounts")
    /\ groups = <<>>
    /\ groups_map = <<>>
    /\ returned = <<>>
    /\ requests = <<>>
    /\ ncalls = 0
    /\ panicked = FALSE
    /\ merge_fields = <<>>
    /\ merge_result = <<>>
    /\ merge_again = <<>>
    /\ merge_pc = "input"
    /\ PossibleTypesIdle

\* SerialGroupForField::group_for_field(parent_type, field_def)
SerialGroupForField(parent_type, name) ==
    /\ ~panicked
    /\ returned = <<>>
    /\ ncalls < MaxCalls
    /\ LET r == Serial_group_for_field(groups, parent_type, name)
       IN  IF r.panic
           THEN /\ panicked' = TRUE
                /\ UNCHANGED <<groups, returned, requests, ncalls>>
           ELSE /\ groups' = r.state
                /\ returned' = <<[parent_type |-> parent_type, name |-> name,
                                  group |-> r.group]>>
                /\ requests' = Append(requests,
                        Call(parent_type, name, get_owning_service(parent_type, name)))
                /\ ncalls' = ncalls + 1
                /\ UNCHANGED panicked
    /\ UNCHANGED <<parent_group, groups_map>>
    /\ UNCHANGED mergeVars
    /\ UNCHANGED possibleVars

\* The caller records the routed field in the group it was handed.
SerialAppendField ==
    /\ returned # <<>>
    /\ groups' = [groups EXCEPT ![returned[1].group].fields =
                      Append(@, FieldOf(returned[1].parent_type, returned[1].name))]
    /\ returned' = <<>>
    /\ UNCHANGED <<parent_group, groups_map, requests, ncalls, panicked>>
    /\ UNCHANGED mergeVars
    /\ UNCHANGED possibleVars

NextSerial ==
    \/ \E in \in MutationInputs : SerialGroupForField(in[1], in[2])
    \/ SerialAppendField

SpecSerial == InitRoot /\ [][NextSerial]_vars

\* ParallelGroupForField::group_for_field(parent_type, field_def)
ParallelGroupForField(parent_type, name) ==
    /\ ~panicked
    /\ returned = <<>>
    /\ ncalls < MaxCalls
    /\ LET r == Parallel_group_for_field(groups_map, parent_type, name)
       IN  IF r.panic
           THEN /\ panicked' = TRUE
                /\ UNCHANGED <<groups_map, returned, requests, ncalls>>
           ELSE /\ groups_map' = r.state
                /\ returned' = <<[parent_type |-> parent_type, name |-> name,
                                  group |-> r.group]>>
                /\ requests' = Append(requests,
                        Call(parent_type, name, get_owning_service(parent_type, name)))
                /\ ncalls' = ncalls + 1
                /\ UNCHANGED panicked
    /\ UNCHANGED <<parent_group, groups>>
    /\ UNCHANGED mergeVars
    /\ UNCHANGED possibleVars

\* The caller records the routed field in the group it was handed.
ParallelAppendField ==
    /\ returned # <<>>
    /\ groups_map' = [groups_map EXCEPT
                         ![index_of(groups_map, returned[1].group)].value.fields =
                             Append(@, FieldOf(returned[1].parent_type, returned[1].name))]
    /\ returned' = <<>>
    /\ UNCHANGED <<parent_group, groups, requests, ncalls, panicked>>
    /\ UNCHANGED mergeVars
    /\ UNCHANGED possibleVars

NextParallel ==
    \/ \E in \in QueryInputs : ParallelGroupForField(in[1], in[2])
    \/ ParallelAppendField

SpecParallel == InitRoot /\ [][NextParallel]_vars

(***************************************************************************)
(* Helpers of the properties.                                              *)
(***************************************************************************)
Elems(seq) == { seq[i] : i \in 1..Len(seq) }

IsPrefix(a, b) == Len(a) <= Len(b) /\ SubSeq(b, 1, Len(a)) = a

RECURSIVE FirstOccurrences(_)
FirstOccurrences(seq) ==
    IF seq = <<>> THEN <<>>
    ELSE LET front == FirstOccurrences(SubSeq(seq, 1, Len(seq) - 1))
             last  == seq[Len(seq)]
         IN  IF last \in Elems(front) THEN front ELSE Append(front, last)

\* The services requested, in order, through dependent_group_for_service on
\* the group at `path`.
RequestedOn(path) ==
    LET on == SelectSeq(requests, LAMBDA r : r.self = path)
    IN  [i \in 1..Len(on) |-> on[i].service]

\* A step in which GroupForSubField::group_for_field returned.
Routed == returned = <<>> /\ returned' # <<>>

(***************************************************************************)
(* C1  Key sufficiency: for every group G of the tree, at every depth,     *)
(* and every group G' held in G.dependent_groups_by_service, each entry    *)
(* of G'.required_fields occurs in G.fields.                               *)
(***************************************************************************)
C1_KeySufficiency ==
    \A G \in all_groups(parent_group) :
        \A i \in 1..Len(G.dependent_groups_by_service) :
            Elems(G.dependent_groups_by_service[i].value.required_fields)
                \subseteq Elems(G.fields)

\* A nested dependent (depth 2) carries required fields, and so does a
\* dependent of the root that was requested directly.
C1_Witness ==
    /\ \E path \in paths_of(parent_group) :
           Len(path) = 2 /\ group_at(parent_group, path).required_fields # <<>>
    /\ \E path \in paths_of(parent_group) :
           Len(path) = 1 /\ group_at(parent_group, path).required_fields # <<>>
    /\ returned = <<>>

(***************************************************************************)
(* C2  Path coherence: every dependent group's merge_at has its parent's   *)
(* merge_at as a prefix; the dependent a dependent_group_for_service call  *)
(* hands out has the parent's merge_at if its own was empty (on creation   *)
(* or on reuse), and a non-empty merge_at is never overwritten.            *)
(***************************************************************************)
C2_Coherent ==
    \A G \in all_groups(parent_group) :
        \A i \in 1..Len(G.dependent_groups_by_service) :
            IsPrefix(G.merge_at, G.dependent_groups_by_service[i].value.merge_at)

C2_Step ==
    /\ \A path \in paths_of(parent_group) :
           group_at(parent_group, path).merge_at # <<>> =>
               /\ path \in paths_of(parent_group')
               /\ group_at(parent_group', path).merge_at =
                      group_at(parent_group, path).merge_at
    /\ \A k \in (Len(requests) + 1)..Len(requests') :
           LET r     == requests'[k]
               child == r.self \o <<r.service>>
           IN  /\ child \in paths_of(parent_group')
               /\ \/ /\ child \in paths_of(parent_group)
                     /\ group_at(parent_group, child).merge_at # <<>>
                  \/ group_at(parent_group', child).merge_at =
                         group_at(parent_group', r.self).merge_at

C2_PathCoherence == [](C2_Coherent) /\ [][C2_Step]_vars

\* Under a parent merged at a non-empty path, a dependent was requested
\* twice (created, then reused) and has a dependent of its own.
C2_Witness ==
    \E i, j \in 1..Len(requests) :
        /\ i < j
        /\ requests[i] = requests[j]
        /\ requests[i].self = <<>>
        /\ parent_group.merge_at # <<>>
        /\ group_at(parent_group, <<requests[i].service>>).merge_at = parent_group.merge_at
        /\ group_at(parent_group, <<requests[i].service>>).dependent_groups_by_service # <<>>

(***************************************************************************)
(* C3  Service purity.  A service owns a field when the metadata says so;  *)
(* __typename and the fields of a value type are served by every service.  *)
(***************************************************************************)
Owns(service, field) ==
    \/ field.name = TYPENAME_FIELD_NAME
    \/ is_value_type(field.parent_type)
    \/ get_owning_service(field.parent_type, field.name) = service

\* C3 as stated: every field in every fetch group's fields is owned by the
\* group's service_name.
C3_ServicePurity ==
    \A G \in all_groups(parent_group) :
        \A f \in Elems(G.fields) : Owns(G.service_name, f)

\* C3, amended: every field in a fetch group's fields is owned by the group's
\* service_name, or is a base-service field whose name is in the group's
\* provided_fields, or is a key or required field that
\* dependent_group_for_service appended for one of the group's dependents
\* (it occurs in that dependent's required_fields).
C3_ServicePurityAmended ==
    \A G \in all_groups(parent_group) :
        \A f \in Elems(G.fields) :
            \/ Owns(G.service_name, f)
            \/ /\ get_owning_service(f.parent_type, f.name) = get_base_service(f.parent_type)
               /\ is_provided(G, f.name)
            \/ \E i \in 1..Len(G.dependent_groups_by_service) :
                   f \in Elems(G.dependent_groups_by_service[i].value.required_fields)

\* A provided field of another service was kept in the parent, the parent
\* holds a key field of a dependent that its service does not own, and the
\* dependent holds the field routed to it.
C3_Witness ==
    /\ returned = <<>>
    /\ \E f \in Elems(parent_group.fields) :
           /\ ~Owns(parent_group.service_name, f)
           /\ is_provided(parent_group, f.name)
           /\ \A i \in 1..Len(parent_group.dependent_groups_by_service) :
                  f \notin Elems(parent_group.dependent_groups_by_service[i].value.required_fields)
    /\ \E f \in Elems(parent_group.fields) :
           /\ ~Owns(parent_group.service_name, f)
           /\ \E i \in 1..Len(parent_group.dependent_groups_by_service) :
                  /\ f \in Elems(parent_group.dependent_groups_by_service[i].value.required_fields)
                  /\ parent_group.dependent_groups_by_service[i].value.fields # <<>>

(***************************************************************************)
(* C4  Value-type transparency: for a field other than __typename whose    *)
(* parent type is a value type, group_for_field returns the parent group   *)
(* and leaves the whole group tree as it was (no dependent group, nothing  *)
(* appended to fields or required_fields), whatever provided_fields holds. *)
(***************************************************************************)
C4_Step ==
    (/\ Routed
     /\ is_value_type(returned'[1].parent_type)
     /\ returned'[1].name # TYPENAME_FIELD_NAME)
    => /\ returned'[1].group = <<>>
       /\ parent_group' = parent_group
       /\ requests' = requests

C4_ValueTypeTransparency == [][C4_Step]_vars

\* A value-type field was routed to the parent although its name is not
\* provided; the parent is on a service that is no entity's base.
C4_Witness ==
    /\ returned # <<>>
    /\ is_value_type(returned[1].parent_type)
    /\ returned[1].name # TYPENAME_FIELD_NAME
    /\ returned[1].group = <<>>
    /\ parent_group.service_name = "reviews"
    /\ parent_group.provided_fields # <<>>
    /\ ~is_provided(parent_group, returned[1].name)

(***************************************************************************)
(* C8  Dependent-group identity: a request for a service creates its       *)
(* dependent group if there is none and otherwise hands out the existing   *)
(* one; no group of the tree ever loses accumulated fields,                *)
(* required_fields, a non-empty merge_at or dependents; no                 *)
(* dependent_groups_by_service holds two entries for one service, and each *)
(* entry's service_name is its key.                                        *)
(***************************************************************************)
C8_Keyed ==
    \A G \in all_groups(parent_group) :
        LET map == G.dependent_groups_by_service
        IN  /\ \A i, j \in 1..Len(map) : map[i].key = map[j].key => i = j
            /\ \A i \in 1..Len(map) : map[i].value.service_name = map[i].key

Intact(old, new) ==
    /\ new.service_name = old.service_name
    /\ new.provided_fields = old.provided_fields
    /\ IsPrefix(old.fields, new.fields)
    /\ IsPrefix(old.required_fields, new.required_fields)
    /\ old.merge_at # <<>> => new.merge_at = old.merge_at
    /\ IsPrefix(keys(old.dependent_groups_by_service),
                keys(new.dependent_groups_by_service))

C8_Step ==
    /\ \A path \in paths_of(parent_group) :
           /\ path \in paths_of(parent_group')
           /\ Intact(group_at(parent_group, path), group_at(parent_group', path))
    /\ \A k \in (Len(requests) + 1)..Len(requests') :
           (requests'[k].self \o <<requests'[k].service>>) \in paths_of(parent_group')
    /\ Cardinality(paths_of(parent_group')) - Cardinality(paths_of(parent_group)) =
           Cardinality({ k \in (Len(requests) + 1)..Len(requests') :
               (requests'[k].self \o <<requests'[k].service>>) \notin paths_of(parent_group) })

C8_DependentIdentity == [](C8_Keyed) /\ [][C8_Step]_vars

\* A dependent that had gathered fields, required fields and a dependent of
\* its own was requested again.
C8_Witness ==
    \E i, j \in 1..Len(requests) :
        /\ i < j
        /\ requests[i] = requests[j]
        /\ \E k \in (i + 1)..(j - 1) :
               requests[k].self = requests[i].self \o <<requests[i].service>>
        /\ LET g == group_at(parent_group, requests[i].self \o <<requests[i].service>>)
           IN  /\ g.required_fields # <<>>
               /\ g.dependent_groups_by_service # <<>>

(***************************************************************************)
(* C9  Dependent ordering: in every group, the key order of                *)
(* dependent_groups_by_service is the order in which the services were     *)
(* first requested on that group; a later request for a service already    *)
(* there neither moves nor removes a key.                                  *)
(***************************************************************************)
C9_DependentOrdering ==
    \A path \in paths_of(parent_group) :
        keys(group_at(parent_group, path).dependent_groups_by_service) =
            FirstOccurrences(RequestedOn(path))

\* Two services were requested on a group and the first of them again.
C9_Witness ==
    \E path \in paths_of(parent_group) :
        LET on == RequestedOn(path)
        IN  /\ Len(on) = 3
            /\ on[1] # on[2]
            /\ on[3] = on[1]

(***************************************************************************)
(* C10  @provides short-circuit: for an object type that is no value type  *)
(* and a field of its base service, if the owning service is the parent    *)
(* group's service or the field's name is in the parent's provided_fields, *)
(* group_for_field returns the parent group and leaves the group tree as   *)
(* it was (no dependent group, no key fields).                             *)
(***************************************************************************)
C10_Step ==
    (/\ Routed
     /\ returned'[1].name # TYPENAME_FIELD_NAME
     /\ ~is_value_type(returned'[1].parent_type)
     /\ get_owning_service(returned'[1].parent_type, returned'[1].name) =
            get_base_service(returned'[1].parent_type)
     /\ \/ get_owning_service(returned'[1].parent_type, returned'[1].name) =
               parent_group.service_name
        \/ is_provided(parent_group, returned'[1].name))
    => /\ returned'[1].group = <<>>
       /\ parent_group' = parent_group
       /\ requests' = requests

C10_ProvidesShortCircuit == [][C10_Step]_vars

\* A field of another service was routed to the parent because it is
\* provided.
C10_Witness ==
    /\ returned # <<>>
    /\ returned[1].name # TYPENAME_FIELD_NAME
    /\ ~is_value_type(returned[1].parent_type)
    /\ get_owning_service(returned[1].parent_type, returned[1].name) =
           get_base_service(returned[1].parent_type)
    /\ get_owning_service(returned[1].parent_type, returned[1].name) #
           parent_group.service_name
    /\ is_provided(parent_group, returned[1].name)
    /\ returned[1].group = <<>>

(***************************************************************************)
(* The cases of GroupForSubField::group_for_field, read from the state     *)
(* before the call and the field it was called for.                        *)
(***************************************************************************)
\* The field the routing step was called for.
RoutedType == returned'[1].parent_type

RoutedName == returned'[1].name

\* An extension field: a field of an entity that another service than the
\* entity's base service defines.
IsExtensionField(type, name) ==
    /\ name # TYPENAME_FIELD_NAME
    /\ ~is_value_type(type)
    /\ TypeKind(type) = "Object"
    /\ get_owning_service(type, name) # get_base_service(type)

\* A field of its type's base service.
IsBaseField(type, name) ==
    /\ name # TYPENAME_FIELD_NAME
    /\ ~is_value_type(type)
    /\ TypeKind(type) = "Object"
    /\ get_owning_service(type, name) = get_base_service(type)

AllProvided(g, fields) == \A f \in Elems(fields) : is_provided(g, f.name)

\* The group under `path`, or the fresh group a first request creates.
GroupOrFresh(g, path, service) ==
    IF path \in paths_of(g) THEN group_at(g, path) ELSE FetchGroup_init(service)

\* The paths of the groups a step created.
Created == paths_of(parent_group') \ paths_of(parent_group)

(***************************************************************************)
(* C11  Extension chain: for an extension field whose required fields are  *)
(* not all provided and whose base service is not the parent group's       *)
(* service, group_for_field leaves the parent with a dependent group on    *)
(* base whose required_fields end with the parent-to-base key fields, and  *)
(* that group with a dependent on owning whose required_fields end with    *)
(* required; required is appended to the base group's fields and the key   *)
(* fields to the parent's fields; the group returned is the owning group   *)
(* under the base group, and the call attaches no owning group to the      *)
(* parent itself, however short the key fields are.                        *)
(***************************************************************************)
C11_Step ==
    (/\ Routed
     /\ IsExtensionField(RoutedType, RoutedName)
     /\ ~AllProvided(parent_group,
                     get_required_fields(RoutedType, RoutedName,
                                         get_owning_service(RoutedType, RoutedName)))
     /\ get_base_service(RoutedType) # parent_group.service_name)
    => LET base     == get_base_service(RoutedType)
           owning   == get_owning_service(RoutedType, RoutedName)
           required == get_required_fields(RoutedType, RoutedName, owning)
           key      == get_key_fields(RoutedType, parent_group.service_name)
           base_old == GroupOrFresh(parent_group, <<base>>, base)
           own_old  == GroupOrFresh(parent_group, <<base, owning>>, owning)
       IN  /\ returned'[1].group = <<base, owning>>
           /\ <<base, owning>> \in paths_of(parent_group')
           /\ Created \subseteq {<<base>>, <<base, owning>>}
           /\ parent_group'.fields = parent_group.fields \o key
           /\ group_at(parent_group', <<base>>).service_name = base
           /\ group_at(parent_group', <<base>>).required_fields =
                  base_old.required_fields \o key
           /\ group_at(parent_group', <<base>>).fields = base_old.fields \o required
           /\ group_at(parent_group', <<base, owning>>).service_name = owning
           /\ group_at(parent_group', <<base, owning>>).required_fields =
                  own_old.required_fields \o required
           /\ group_at(parent_group', <<base, owning>>).fields = own_old.fields
           /\ requests' = requests \o <<Request(<<>>, base), Request(<<base>>, owning)>>

C11_ExtensionChain == [][C11_Step]_vars

\* The chain was built from a parent whose service has no @key for the
\* type: the base group carries __typename alone, and the owning group
\* returned sits under it, none under the parent.
C11_Witness ==
    /\ returned # <<>>
    /\ Len(returned[1].group) = 2
    /\ IsExtensionField(returned[1].parent_type, returned[1].name)
    /\ group_at(parent_group, <<returned[1].group[1]>>).required_fields =
           <<FieldOf(returned[1].parent_type, TYPENAME_FIELD_NAME)>>
    /\ group_at(parent_group, returned[1].group).required_fields # <<>>
    /\ <<returned[1].group[2]>> \notin paths_of(parent_group)

(***************************************************************************)
(* C12  Two-service join: for an extension field whose required fields are *)
(* not all in provided_fields and whose base service is the parent group's *)
(* service, group_for_field returns the dependent group for owning that    *)
(* hangs directly off the parent, with required appended to that group's   *)
(* required_fields and to the parent's fields; no group for another        *)
(* service is created.                                                     *)
(***************************************************************************)
C12_Step ==
    (/\ Routed
     /\ IsExtensionField(RoutedType, RoutedName)
     /\ ~AllProvided(parent_group,
                     get_required_fields(RoutedType, RoutedName,
                                         get_owning_service(RoutedType, RoutedName)))
     /\ get_base_service(RoutedType) = parent_group.service_name)
    => LET owning   == get_owning_service(RoutedType, RoutedName)
           required == get_required_fields(RoutedType, RoutedName, owning)
           own_old  == GroupOrFresh(parent_group, <<owning>>, owning)
       IN  /\ returned'[1].group = <<owning>>
           /\ <<owning>> \in paths_of(parent_group')
           /\ Created \subseteq {<<owning>>}
           /\ group_at(parent_group', <<owning>>).service_name = owning
           /\ group_at(parent_group', <<owning>>).required_fields =
                  own_old.required_fields \o required
           /\ group_at(parent_group', <<owning>>).fields = own_old.fields
           /\ parent_group'.fields = parent_group.fields \o required
           /\ requests' = requests \o <<Request(<<>>, owning)>>

C12_TwoServiceJoin == [][C12_Step]_vars

\* { me { name reviews } } below a group on accounts: name stayed in the
\* parent, reviews went to a dependent on the reviews service that requires
\* the key of User, which the parent now fetches after name.
C12_Witness ==
    /\ returned # <<>>
    /\ returned[1].parent_type = "User"
    /\ returned[1].name = "reviews"
    /\ returned[1].group = <<"reviews">>
    /\ parent_group.service_name = "accounts"
    /\ parent_group.fields =
           <<FieldOf("User", "name"), FieldOf("User", TYPENAME_FIELD_NAME),
             FieldOf("User", "id")>>
    /\ keys(parent_group.dependent_groups_by_service) = <<"reviews">>
    /\ group_at(parent_group, <<"reviews">>).required_fields =
           <<FieldOf("User", TYPENAME_FIELD_NAME), FieldOf("User", "id")>>

(***************************************************************************)
(* C14  For a field named __typename, group_for_field returns the parent   *)
(* group whatever the parent type is (object, interface, union or value    *)
(* type): it does not abort and leaves the parent's fields,                *)
(* required_fields and dependent groups as they were.  The federation      *)
(* metadata has no base service for an interface or a union: the call      *)
(* returns before asking for one.                                          *)
(***************************************************************************)
ParentTypes == {"User", "Product", "Image", "Node", "SearchResult"}

\* In every state, a call for __typename would return the parent group.
C14_Returns ==
    \A type \in ParentTypes :
        LET r == SubField_group_for_field(parent_group, type, TYPENAME_FIELD_NAME)
        IN  /\ ~r.panic
            /\ r.group = <<>>
            /\ r.parent_group = parent_group
            /\ r.reqs = <<>>

\* A call for __typename that was made returned the parent group and changed
\* nothing; no call for __typename aborts.
C14_Step ==
    /\ (Routed /\ RoutedName = TYPENAME_FIELD_NAME)
           => /\ returned'[1].group = <<>>
              /\ parent_group' = parent_group
              /\ requests' = requests
              /\ ~panicked'
    /\ (~panicked /\ panicked')
           => \E in \in SubFieldInputs :
                  /\ in[2] # TYPENAME_FIELD_NAME
                  /\ SubField_group_for_field(parent_group, in[1], in[2]).panic

C14_Typename == [](C14_Returns) /\ [][C14_Step]_vars

\* __typename of a union was routed to a parent group on a service that is
\* no type's base service for it, which has fields and a dependent group.
C14_Witness ==
    /\ returned # <<>>
    /\ returned[1].name = TYPENAME_FIELD_NAME
    /\ TypeKind(returned[1].parent_type) = "Union"
    /\ returned[1].group = <<>>
    /\ ~panicked
    /\ parent_group.fields # <<>>
    /\ parent_group.dependent_groups_by_service # <<>>
    /\ parent_group.provided_fields = <<>>

(***************************************************************************)
(* C15  Key-field fallback: for a field of its type's base service that is *)
(* neither on the parent group's service nor provided, group_for_field     *)
(* requests the dependent group for owning with the key fields of the type *)
(* at the parent's service, or, when those are __typename and nothing      *)
(* else, with the key fields of the type at the owning service; the fields *)
(* passed are appended to the dependent's required_fields and to the       *)
(* parent's fields.                                                        *)
(***************************************************************************)
C15_Step ==
    (/\ Routed
     /\ IsBaseField(RoutedType, RoutedName)
     /\ get_owning_service(RoutedType, RoutedName) # parent_group.service_name
     /\ ~is_provided(parent_group, RoutedName))
    => LET owning  == get_owning_service(RoutedType, RoutedName)
           at_parent == get_key_fields(RoutedType, parent_group.service_name)
           passed  == IF at_parent = <<FieldOf(RoutedType, TYPENAME_FIELD_NAME)>>
                      THEN get_key_fields(RoutedType, owning)
                      ELSE at_parent
           own_old == GroupOrFresh(parent_group, <<owning>>, owning)
       IN  /\ returned'[1].group = <<owning>>
           /\ requests' = requests \o <<Request(<<>>, owning)>>
           /\ Created \subseteq {<<owning>>}
           /\ group_at(parent_group', <<owning>>).required_fields =
                  own_old.required_fields \o passed
           /\ parent_group'.fields = parent_group.fields \o passed

C15_KeyFieldFallback == [][C15_Step]_vars

\* User.name below a group on products, which has no @key for User: the
\* dependent on accounts requires the key of User at accounts, and the
\* parent fetches it.
C15_Witness ==
    /\ returned # <<>>
    /\ returned[1].parent_type = "User"
    /\ returned[1].name = "name"
    /\ returned[1].group = <<"accounts">>
    /\ parent_group.service_name = "products"
    /\ get_key_fields("User", "products") = <<FieldOf("User", TYPENAME_FIELD_NAME)>>
    /\ group_at(parent_group, <<"accounts">>).required_fields =
           <<FieldOf("User", TYPENAME_FIELD_NAME), FieldOf("User", "id")>>
    /\ parent_group.fields =
           <<FieldOf("User", TYPENAME_FIELD_NAME), FieldOf("User", "id")>>

(***************************************************************************)
(* C16  Extension field with its prerequisites provided: for an extension  *)
(* field, if the name of every required field is in the parent's           *)
(* provided_fields, group_for_field returns the parent group (and changes  *)
(* nothing) when owning is the parent's service, and otherwise the         *)
(* dependent group for owning directly under the parent, carrying          *)
(* required; neither way is a dependent group on the base service created, *)
(* also when base is not the parent's service.                             *)
(***************************************************************************)
C16_Step ==
    (/\ Routed
     /\ IsExtensionField(RoutedType, RoutedName)
     /\ AllProvided(parent_group,
                    get_required_fields(RoutedType, RoutedName,
                                        get_owning_service(RoutedType, RoutedName))))
    => LET base     == get_base_service(RoutedType)
           owning   == get_owning_service(RoutedType, RoutedName)
           required == get_required_fields(RoutedType, RoutedName, owning)
           own_old  == GroupOrFresh(parent_group, <<owning>>, owning)
       IN  /\ <<base>> \notin Created
           /\ IF owning = parent_group.service_name
              THEN /\ returned'[1].group = <<>>
                   /\ parent_group' = parent_group
                   /\ requests' = requests
              ELSE /\ returned'[1].group = <<owning>>
                   /\ Created \subseteq {<<owning>>}
                   /\ requests' = requests \o <<Request(<<>>, owning)>>
                   /\ group_at(parent_group', <<owning>>).required_fields =
                          own_old.required_fields \o required
                   /\ parent_group'.fields = parent_group.fields \o required

C16_ProvidedExtension == [][C16_Step]_vars

\* User.reviews below a group on products that provides id: the group
\* returned is the dependent on reviews under the parent, and the parent has
\* no dependent on accounts, the base service of User.
C16_Witness ==
    /\ returned # <<>>
    /\ returned[1].parent_type = "User"
    /\ returned[1].name = "reviews"
    /\ returned[1].group = <<"reviews">>
    /\ parent_group.service_name = "products"
    /\ AllProvided(parent_group, get_required_fields("User", "reviews", "reviews"))
    /\ keys(parent_group.dependent_groups_by_service) = <<"reviews">>
    /\ group_at(parent_group, <<"reviews">>).required_fields =
           get_required_fields("User", "reviews", "reviews")

(***************************************************************************)
(* C17  The merge_at of the dependent groups group_for_field creates.      *)
(***************************************************************************)
\* The path of the group that holds the group under `path`.
ParentPath(path) == SubSeq(path, 1, Len(path) - 1)

StrictlyExtends(a, b) == IsPrefix(b, a) /\ a # b

\* C17 as stated: only the two-step chain of the extension path creates a
\* dependent group whose merge_at equals its parent's merge_at; a dependent
\* group created by any other branch (the non-extension dependent, the
\* provided-extension dependent, the base-equals-parent dependent) has a
\* merge_at that strictly extends its parent's.
C17_OnlyChainStep ==
    Routed =>
        \A path \in Created :
            LET child  == group_at(parent_group', path)
                parent == group_at(parent_group', ParentPath(path))
            IN  IF Len(returned'[1].group) = 2
                THEN child.merge_at = parent.merge_at
                ELSE StrictlyExtends(child.merge_at, parent.merge_at)

C17_OnlyChainEqual == [][C17_OnlyChainStep]_vars

\* C17, amended: every dependent group group_for_field creates, in the
\* two-step chain and in every other branch alike, has the merge_at of the
\* group that holds it; none of them has a merge_at that strictly extends
\* its parent's.
C17_CreatedStep ==
    Routed =>
        \A path \in Created :
            group_at(parent_group', path).merge_at =
                group_at(parent_group', ParentPath(path)).merge_at

C17_CreatedAtParentsPath == [][C17_CreatedStep]_vars

\* The non-extension path created the dependent it returned under a parent
\* merged at a non-empty path, and the dependent is merged at that path.
C17_Witness ==
    /\ returned # <<>>
    /\ Len(returned[1].group) = 1
    /\ IsBaseField(returned[1].parent_type, returned[1].name)
    /\ parent_group.merge_at # <<>>
    /\ group_at(parent_group, returned[1].group).merge_at = parent_group.merge_at
    /\ group_at(parent_group, returned[1].group).fields = <<>>
    /\ Len(requests) = 1

(***************************************************************************)
(* Helpers of the root selectors' properties.                              *)
(***************************************************************************)
RECURSIVE Flatten(_)
Flatten(seqs) == IF seqs = <<>> THEN <<>> ELSE Head(seqs) \o Flatten(Tail(seqs))

\* A sequence with every run of equal neighbours cut to one element.
RECURSIVE RunLengthCompressed(_)
RunLengthCompressed(seq) ==
    IF seq = <<>> THEN <<>>
    ELSE LET front == RunLengthCompressed(SubSeq(seq, 1, Len(seq) - 1))
             last  == seq[Len(seq)]
         IN  IF front # <<>> /\ front[Len(front)] = last THEN front
             ELSE Append(front, last)

ServiceNames(gs) == [i \in 1..Len(gs) |-> gs[i].service_name]

\* The fields and owning services of the calls made, in call order.
CalledFields == [i \in 1..Len(requests) |->
                    FieldOf(requests[i].parent_type, requests[i].name)]

CalledServices == [i \in 1..Len(requests) |-> requests[i].service]

\* The calls whose field the caller has recorded already.
Recorded(seq) == IF returned = <<>> THEN seq ELSE SubSeq(seq, 1, Len(seq) - 1)

(***************************************************************************)
(* C6  Serial selector: a call reuses the last group iff the field's       *)
(* owning service is the last group's service_name and otherwise pushes a  *)
(* new group at the end; so no two adjacent groups share a service_name,   *)
(* the groups' fields read in group order are the routed fields in call    *)
(* order, and into_groups gives the services of the calls with every run   *)
(* cut to one.                                                             *)
(***************************************************************************)
C6_Step ==
    Routed =>
        LET service == get_owning_service(returned'[1].parent_type, returned'[1].name)
        IN  IF groups # <<>> /\ groups[Len(groups)].service_name = service
            THEN groups' = groups /\ returned'[1].group = Len(groups)
            ELSE /\ groups' = Append(groups, FetchGroup_init(service))
                 /\ returned'[1].group = Len(groups) + 1

C6_Ordered ==
    /\ \A i \in 1..(Len(groups) - 1) : groups[i].service_name # groups[i + 1].service_name
    /\ Flatten([i \in 1..Len(groups) |-> groups[i].fields]) = Recorded(CalledFields)
    /\ \A i \in 1..Len(groups) :
           \A f \in Elems(groups[i].fields) :
               get_owning_service(f.parent_type, f.name) = groups[i].service_name
    /\ ServiceNames(Serial_into_groups(groups)) = RunLengthCompressed(CalledServices)

C6_SerialSelector == [](C6_Ordered) /\ [][C6_Step]_vars

\* Two fields of one service and then a field of another were routed and
\* recorded: two groups, the first with two fields.
C6_Witness ==
    /\ returned = <<>>
    /\ Len(requests) = 3
    /\ CalledServices[1] = CalledServices[2]
    /\ CalledServices[2] # CalledServices[3]
    /\ Len(groups) = 2
    /\ Len(groups[1].fields) = 2
    /\ Len(groups[2].fields) = 1

(***************************************************************************)
(* C7  Parallel selector: each call returns the group whose service_name   *)
(* is the field's owning service; there is at most one group per service;  *)
(* a call for a service seen before leaves the map as it is (the group     *)
(* keeps its fields); into_groups gives the groups in the order in which   *)
(* their services were first seen.                                         *)
(***************************************************************************)
C7_Step ==
    Routed =>
        LET service == get_owning_service(returned'[1].parent_type, returned'[1].name)
        IN  /\ returned'[1].group = service
            /\ contains_key(groups_map', service)
            /\ groups_map'[index_of(groups_map', service)].value.service_name = service
            /\ contains_key(groups_map, service) => groups_map' = groups_map

C7_OnePerService ==
    /\ \A i, j \in 1..Len(groups_map) :
           groups_map[i].key = groups_map[j].key => i = j
    /\ \A i \in 1..Len(groups_map) :
           /\ groups_map[i].value.service_name = groups_map[i].key
           /\ groups_map[i].value.fields =
                  SelectSeq(Recorded(CalledFields),
                            LAMBDA f : get_owning_service(f.parent_type, f.name) =
                                           groups_map[i].key)
    /\ ServiceNames(Parallel_into_groups(groups_map)) = FirstOccurrences(CalledServices)

C7_ParallelSelector == [](C7_OnePerService) /\ [][C7_Step]_vars

\* A service was seen, then another, then the first again: two groups in
\* first-seen order, the first holding both of its fields.
C7_Witness ==
    /\ returned = <<>>
    /\ Len(requests) = 3
    /\ CalledServices[1] # CalledServices[2]
    /\ CalledServices[3] = CalledServices[1]
    /\ Len(groups_map) = 2
    /\ groups_map[1].key = CalledServices[1]
    /\ Len(groups_map[1].value.fields) = 2

(***************************************************************************)
(* The selection merger (helpers.rs).  A selection is a field (name,       *)
(* alias, the items of its selection set) or a fragment (a spread or an    *)
(* inline fragment), which the merger never looks into.                    *)
(***************************************************************************)
NoAlias == ""

FieldNode(name, alias, items) ==
    [kind |-> "Field", name |-> name, alias |-> alias, items |-> items]

FragmentSpread(name) ==
    [kind |-> "FragmentSpread", name |-> name, alias |-> NoAlias, items |-> <<>>]

InlineFragment(type_condition, items) ==
    [kind |-> "InlineFragment", name |-> type_condition, alias |-> NoAlias,
     items |-> items]

is_field(s) == s.kind = "Field"

is_aliased_field(s) == s.kind = "Field" /\ s.alias # NoAlias

no_or_empty_selection_set(s) == s.items = <<>>

\* The items of a field's selection set (flat_map over the Option and the items).
into_fields_selection_set_items(s) == IF s.kind = "Field" THEN s.items ELSE <<>>

\* Mutant: the groups come out in another order than first occurrence, as
\* from an unordered map.
RECURSIVE group_by_Unordered(_)
group_by_Unordered(v) ==
    IF v = <<>> THEN <<>>
    ELSE LET map     == group_by_Unordered(SubSeq(v, 1, Len(v) - 1))
             element == v[Len(v)]
         IN  IF contains_key(map, element.name)
             THEN [map EXCEPT ![index_of(map, element.name)].value = Append(@, element)]
             ELSE <<[key |-> element.name, value |-> <<element>>]>> \o map

\* Mutant: only neighbours are grouped, as a grouping of consecutive runs does.
RECURSIVE group_by_Adjacent(_)
group_by_Adjacent(v) ==
    IF v = <<>> THEN <<>>
    ELSE LET map     == group_by_Adjacent(SubSeq(v, 1, Len(v) - 1))
             element == v[Len(v)]
         IN  IF map # <<>> /\ map[Len(map)].key = element.name
             THEN [map EXCEPT ![Len(map)].value = Append(@, element)]
             ELSE Append(map, [key |-> element.name, value |-> <<element>>])

\* group_by(v, name of the field): the elements in order, each pushed to the
\* entry of its key.
RECURSIVE group_by(_)
group_by(v) ==
    IF v = <<>> THEN <<>>
    ELSE LET map     == group_by(SubSeq(v, 1, Len(v) - 1))
             element == v[Len(v)]
             entry   == entry_or_insert_with(map, element.name, <<>>)
         IN  [entry EXCEPT ![index_of(entry, element.name)].value = Append(@, element)]

RECURSIVE merge_field_selection_sets(_)
RECURSIVE merge_nodes_with_same_name(_)

\* Mutant: the combined sub-selection is not merged in its turn.
merge_nodes_with_same_name_NoRecursion(nodes_with_same_name) ==
    LET nothing_to_do == \/ Len(nodes_with_same_name) = 1
                         \/ no_or_empty_selection_set(nodes_with_same_name[1])
        head == Head(nodes_with_same_name)
        tail == Tail(nodes_with_same_name)
    IN  IF ~nothing_to_do
        THEN [head EXCEPT !.items =
                 head.items \o
                 Flatten([i \in 1..Len(tail) |->
                             into_fields_selection_set_items(tail[i])])]
        ELSE head

\* Mutant: the head is kept and the tails are not looked at.
merge_nodes_with_same_name_HeadOnly(nodes_with_same_name) ==
    LET head == Head(nodes_with_same_name)
    IN  IF ~no_or_empty_selection_set(head)
        THEN [head EXCEPT !.items = merge_field_selection_sets(head.items)]
        ELSE head

\* The closure mapped over the groups (helpers.rs 146-179).
merge_nodes_with_same_name(nodes_with_same_name) ==
    LET nothing_to_do == \/ Len(nodes_with_same_name) = 1
                         \/ no_or_empty_selection_set(nodes_with_same_name[1])
        head == Head(nodes_with_same_name)
        tail == Tail(nodes_with_same_name)
    IN  IF ~nothing_to_do
        THEN [head EXCEPT !.items =
                 merge_field_selection_sets(
                     head.items \o
                     Flatten([i \in 1..Len(tail) |->
                                 into_fields_selection_set_items(tail[i])]))]
        ELSE head

\* Mutant: the fields are grouped by name whether aliased or not.
merge_field_selection_sets_AliasedMerged(fields) ==
    LET field_nodes        == SelectSeq(fields, is_field)
        fragment_nodes     == SelectSeq(fields, LAMBDA sel : ~is_field(sel))
        nodes_by_same_name == group_by(field_nodes)
        merged_field_nodes ==
            [i \in 1..Len(nodes_by_same_name) |->
                merge_nodes_with_same_name(nodes_by_same_name[i].value)]
    IN  merged_field_nodes \o fragment_nodes

merge_field_selection_sets(fields) ==
    LET field_nodes             == SelectSeq(fields, is_field)
        fragment_nodes          == SelectSeq(fields, LAMBDA sel : ~is_field(sel))
        aliased_field_nodes     == SelectSeq(field_nodes, is_aliased_field)
        non_aliased_field_nodes == SelectSeq(field_nodes, LAMBDA sel : ~is_aliased_field(sel))
        nodes_by_same_name      == group_by(non_aliased_field_nodes)
        merged_field_nodes      ==
            [i \in 1..Len(nodes_by_same_name) |->
                merge_nodes_with_same_name(nodes_by_same_name[i].value)]
    IN  merged_field_nodes \o aliased_field_nodes \o fragment_nodes

\* The items of the SelectionSetRef returned for `fields`, a Vec<FieldRef>.
merge_selection_sets(fields) ==
    merge_field_selection_sets(
        Flatten([i \in 1..Len(fields) |-> fields[i].items]))

(***************************************************************************)
(* The merger's inputs: lists of at most MaxItems selections of a pool     *)
(* (leaves, fields with sub-selections one and two levels deep, aliased    *)
(* fields that share a name or an alias, fragments), handed over as the    *)
(* selection sets of two fields.                                           *)
(***************************************************************************)
MaxItems == 3

field_a == FieldNode("a", NoAlias, <<>>)
field_b == FieldNode("b", NoAlias, <<>>)
aliased_a == FieldNode("a", "x", <<>>)
aliased_b == FieldNode("b", "x", <<>>)
spread_F == FragmentSpread("F")

SubSelections ==
    { <<field_a>>, <<field_b>>, <<field_a, field_b>>, <<field_b, field_a>>,
      <<field_b, field_b>>, <<spread_F, field_b>>, <<aliased_a, field_a>>,
      <<FieldNode("b", NoAlias, <<field_a>>)>>,
      <<FieldNode("b", NoAlias, <<field_b>>)>>,
      <<FieldNode("b", NoAlias, <<field_a>>), FieldNode("b", NoAlias, <<field_b>>)>> }

SelectionPool ==
    { field_a, field_b, aliased_a, aliased_b, spread_F,
      InlineFragment("T", <<field_a, field_a>>) }
    \cup { FieldNode("a", NoAlias, items) : items \in SubSelections }
    \cup { FieldNode("b", NoAlias, <<field_a>>),
           FieldNode("b", NoAlias, <<field_b, field_b>>) }

SelectionLists == UNION { [1..n -> SelectionPool] : n \in 0..MaxItems }

FieldRefOf(items) == FieldNode("_", NoAlias, items)

InitMerge ==
    /\ parent_group = FetchGroup_init("accounts")
    /\ groups = <<>>
    /\ groups_map = <<>>
    /\ returned = <<>>
    /\ requests = <<>>
    /\ ncalls = 0
    /\ panicked = FALSE
    /\ \E items \in SelectionLists, k \in {0, 1} :
           /\ k <= Len(items)
           /\ merge_fields = << FieldRefOf(SubSeq(items, 1, k)),
                                FieldRefOf(SubSeq(items, k + 1, Len(items))) >>
    /\ merge_result = <<>>
    /\ merge_again = <<>>
    /\ merge_pc = "input"
    /\ PossibleTypesIdle

\* merge_selection_sets(fields)
Merge ==
    /\ merge_pc = "input"
    /\ merge_result' = merge_selection_sets(merge_fields)
    /\ merge_pc' = "merged"
    /\ UNCHANGED <<merge_fields, merge_again>>
    /\ UNCHANGED selectorVars
    /\ UNCHANGED possibleVars

\* merge_selection_sets applied to the selection set it returned.
MergeAgain ==
    /\ merge_pc = "merged"
    /\ merge_again' = merge_selection_sets(<<FieldRefOf(merge_result)>>)
    /\ merge_pc' = "remerged"
    /\ UNCHANGED <<merge_fields, merge_result>>
    /\ UNCHANGED selectorVars
    /\ UNCHANGED possibleVars

NextMerge == Merge \/ MergeAgain

SpecMerge == InitMerge /\ [][NextMerge]_vars

(***************************************************************************)
(* C5  Merge idempotence: merging the merger's own output gives the same   *)
(* items, in the same order and with the same nested structure.            *)
(***************************************************************************)
C5_MergeIdempotence ==
    merge_pc = "remerged" => merge_again = merge_result

\* The first pass changed something (it merged two fields of one name and
\* moved an aliased field and field_a fragment behind them) and was applied again.
C5_Witness ==
    /\ merge_pc = "remerged"
    /\ merge_result # Flatten([i \in 1..Len(merge_fields) |-> merge_fields[i].items])
    /\ Len(merge_result) = 2
    /\ merge_result[1].items = <<field_b, field_a>>
    /\ merge_result[2] = spread_F

(***************************************************************************)
(* Helpers of the merger's properties.                                     *)
(***************************************************************************)
\* The selections handed to the merger, in order.
MergeInput == Flatten([i \in 1..Len(merge_fields) |-> merge_fields[i].items])

NonAliasedFields(items) ==
    SelectSeq(items, LAMBDA s : is_field(s) /\ ~is_aliased_field(s))

NamesOf(items) == [i \in 1..Len(items) |-> items[i].name]

\* The non-aliased fields of a name, in order.
Occurrences(items, name) ==
    SelectSeq(NonAliasedFields(items), LAMBDA s : s.name = name)

\* The items of the later occurrences, in order.
LaterItems(occ) == Flatten([i \in 1..(Len(occ) - 1) |-> occ[i + 1].items])

(***************************************************************************)
(* C13  Sibling merge: the items merge_selection_sets returns hold at most *)
(* one non-aliased field per name, in order of first occurrence; when a    *)
(* name occurs two or more times and its first occurrence has a non-empty  *)
(* sub-selection, the output field is the first occurrence with, as its    *)
(* sub-selection, the recursive merge of its items followed by the items   *)
(* of every later occurrence.                                              *)
(***************************************************************************)
C13_SiblingMerge ==
    merge_pc # "input" =>
        LET out == NonAliasedFields(merge_result)
        IN  /\ NamesOf(out) = FirstOccurrences(NamesOf(NonAliasedFields(MergeInput)))
            /\ \A i \in 1..Len(out) :
                   LET occ == Occurrences(MergeInput, out[i].name)
                   IN  (Len(occ) >= 2 /\ occ[1].items # <<>>) =>
                           /\ out[i] = [occ[1] EXCEPT !.items =
                                           merge_field_selection_sets(
                                               occ[1].items \o LaterItems(occ))]
                           /\ NamesOf(NonAliasedFields(out[i].items)) =
                                  FirstOccurrences(NamesOf(NonAliasedFields(
                                      occ[1].items \o LaterItems(occ))))

\* a { b { a } } a { b { b } } came out as the single a { b { a b } }: the
\* two b of the combined sub-selection were merged in their turn.
C13_Witness ==
    /\ merge_pc = "merged"
    /\ Len(MergeInput) = 2
    /\ MergeInput[1] # MergeInput[2]
    /\ merge_result =
           <<FieldNode("a", NoAlias,
                 <<FieldNode("b", NoAlias, <<field_a, field_b>>)>>)>>

(***************************************************************************)
(* C18  Merger output order: the items returned are the merged non-aliased *)
(* fields in order of first occurrence of their name, then every aliased   *)
(* field in its original relative order, then every fragment spread or     *)
(* inline fragment in its original relative order; each aliased field and  *)
(* each fragment of the input is there once and unchanged, also when two   *)
(* aliased fields share a name or an alias.                                *)
(***************************************************************************)
C18_OutputOrder ==
    merge_pc # "input" =>
        LET names     == FirstOccurrences(NamesOf(NonAliasedFields(MergeInput)))
            aliased   == SelectSeq(MergeInput, is_aliased_field)
            fragments == SelectSeq(MergeInput, LAMBDA s : ~is_field(s))
            n         == Len(names)
            m         == Len(aliased)
        IN  /\ Len(merge_result) = n + m + Len(fragments)
            /\ \A i \in 1..n :
                   /\ is_field(merge_result[i])
                   /\ ~is_aliased_field(merge_result[i])
                   /\ merge_result[i].name = names[i]
            /\ SubSeq(merge_result, n + 1, n + m) = aliased
            /\ SubSeq(merge_result, n + m + 1, Len(merge_result)) = fragments

\* Two aliased fields that share the alias x, one of them with the name of
\* the plain field behind them: the plain field came out first, then the
\* two aliased fields in their order, each once and as it was.
C18_Witness ==
    /\ merge_pc = "merged"
    /\ MergeInput = <<aliased_a, aliased_b, field_a>>
    /\ aliased_a.alias = aliased_b.alias
    /\ aliased_a.name = field_a.name
    /\ merge_result = <<field_a, aliased_a, aliased_b>>

(***************************************************************************)
(* C19  The normal form of the merger's output.                            *)
(***************************************************************************)
\* No two non-aliased fields of the list share a name.
DistinctNames(items) ==
    LET names == NamesOf(NonAliasedFields(items))
    IN  \A i, j \in 1..Len(names) : names[i] = names[j] => i = j

\* C19 as stated: in the selection set merge_selection_sets returns no two
\* non-aliased sibling fields share a name, at the top level and inside the
\* sub-selection of every field of the output.
C19_Normalised ==
    merge_pc # "input" =>
        /\ DistinctNames(merge_result)
        /\ \A i \in 1..Len(merge_result) :
               is_field(merge_result[i]) => DistinctNames(merge_result[i].items)

\* The output `out` of merging `in`: no two non-aliased siblings share a
\* name; a field merged from two or more occurrences of which the first has
\* a non-empty sub-selection is normalised inside in the same way; any other
\* field is its first occurrence as given.
RECURSIVE NormalisedWhereMerged(_, _)
NormalisedWhereMerged(in, out) ==
    LET fields == NonAliasedFields(out)
    IN  /\ DistinctNames(out)
        /\ \A i \in 1..Len(fields) :
               LET occ == Occurrences(in, fields[i].name)
               IN  /\ occ # <<>>
                   /\ IF Len(occ) >= 2 /\ occ[1].items # <<>>
                      THEN NormalisedWhereMerged(occ[1].items \o LaterItems(occ),
                                                 fields[i].items)
                      ELSE fields[i] = occ[1]

\* C19, amended: in the selection set merge_selection_sets returns no two
\* non-aliased sibling fields share a name at the top level, nor inside the
\* sub-selection of an output field merged from two or more input fields of
\* which the first has a non-empty sub-selection (and so on inside it); a
\* field that occurs once, or whose first occurrence has no or an empty
\* sub-selection, is returned as given, same-named siblings inside it
\* included.
C19_NormalisedWhereMerged ==
    merge_pc # "input" => NormalisedWhereMerged(MergeInput, merge_result)

\* Two fields of one name were merged and the combined sub-selection, which
\* held a name twice, came out with that name once.
C19_Witness ==
    /\ merge_pc = "merged"
    /\ \E i \in 1..Len(merge_result) :
           LET occ == Occurrences(MergeInput, merge_result[i].name)
           IN  /\ is_field(merge_result[i]) /\ ~is_aliased_field(merge_result[i])
               /\ Len(occ) >= 2
               /\ occ[1].items # <<>>
               /\ ~DistinctNames(occ[1].items \o LaterItems(occ))
               /\ DistinctNames(merge_result[i].items)
               /\ Len(merge_result[i].items) >= 2

(***************************************************************************)
(* C20  What the merger keeps of the sub-selections of same-named fields.  *)
(***************************************************************************)
\* The selection is among the items: a non-aliased field as the field of its
\* name (possibly merged with others), an aliased field or a fragment as it
\* is.
Present(s, items) ==
    IF is_field(s) /\ ~is_aliased_field(s)
    THEN \E o \in Elems(NonAliasedFields(items)) : o.name = s.name
    ELSE s \in Elems(items)

\* The names that several non-aliased fields of the input share.
SharedNames ==
    { name \in Elems(NamesOf(NonAliasedFields(MergeInput))) :
          Len(Occurrences(MergeInput, name)) >= 2 }

\* The output field of a name.
OutputField(name) == Occurrences(merge_result, name)[1]

\* C20 as stated: for every name shared by several non-aliased input fields,
\* every selection found in the sub-selection of any of those occurrences is
\* present (possibly merged) in the sub-selection of the single output
\* field, whichever occurrence comes first and also when the first
\* occurrence has no sub-selection or an empty one.
C20_DropsNothing ==
    merge_pc # "input" =>
        \A name \in SharedNames :
            LET occ == Occurrences(MergeInput, name)
            IN  /\ Len(Occurrences(merge_result, name)) = 1
                /\ \A k \in 1..Len(occ) :
                       \A s \in Elems(occ[k].items) :
                           Present(s, OutputField(name).items)

\* C20, amended: for every name shared by several non-aliased input fields
\* there is one output field; when the first occurrence has a non-empty
\* sub-selection, every selection found in the sub-selection of any of the
\* occurrences is present in the output field's sub-selection (a
\* non-aliased field as the one field of its name, an aliased field or a
\* fragment as it was); when the first occurrence has no sub-selection or
\* an empty one, the output field is that first occurrence unchanged and the
\* sub-selections of the later occurrences are dropped.
C20_KeepsUnderNonEmptyHead ==
    merge_pc # "input" =>
        \A name \in SharedNames :
            LET occ == Occurrences(MergeInput, name)
            IN  /\ Len(Occurrences(merge_result, name)) = 1
                /\ IF occ[1].items # <<>>
                   THEN \A k \in 1..Len(occ) :
                            \A s \in Elems(occ[k].items) :
                                Present(s, OutputField(name).items)
                   ELSE OutputField(name) = occ[1]

\* a { a } a { F b }, the spread F and b only in the second occurrence, came
\* out as a { a b F }.
C20_Witness ==
    /\ merge_pc = "merged"
    /\ Len(MergeInput) = 2
    /\ MergeInput[1].items = <<field_a>>
    /\ MergeInput[2].items = <<spread_F, field_b>>
    /\ merge_result = <<FieldNode("a", NoAlias, <<field_a, field_b, spread_F>>)>>

(***************************************************************************)
(* build_possible_types (helpers.rs 29-91).  A type definition is a record *)
(* with its kind, its name, the interfaces it declares                     *)
(* (implements_interfaces, for an object or an interface) and its member   *)
(* types (for a union).  A HashMap is a function on the set of its keys;   *)
(* an object type is referred to by its name.                              *)
(***************************************************************************)
TypeDef(kind, name, implements_interfaces, types) ==
    [kind |-> kind, name |-> name,
     implements_interfaces |-> implements_interfaces, types |-> types]

\* names_to_types(schema)[name]: collecting into the map, a later definition
\* of a name replaces an earlier one.
names_to_types(s, name) ==
    LET at == { i \in 1..Len(s) : s[i].name = name }
    IN  s[CHOOSE i \in at : \A j \in at : j <= i]

\* HashMap::insert
hash_insert(map, k, v) ==
    [x \in DOMAIN map \cup {k} |-> IF x = k THEN v ELSE map[x]]

\* HashMap::entry(k).or_insert_with(Vec::new)
hash_entry_or_insert_with(map, k, v) ==
    IF k \in DOMAIN map THEN map ELSE hash_insert(map, k, v)

(***************************************************************************)
(* The schemas build_possible_types is given: two object types, three      *)
(* interfaces and possibly a union.  Node declares no interface, Entity    *)
(* may declare Node, Resource may declare Entity and Node, so that the     *)
(* implements relation has no cycle; an object declares up to              *)
(* MaxImplements interfaces, in any order.                                 *)
(***************************************************************************)
MaxImplements == 2

InterfaceNames == {"Node", "Entity", "Resource"}

\* The lists of at most MaxImplements different names of a set.
ImplementsLists(names) ==
    { l \in UNION { [1..n -> names] : n \in 0..MaxImplements } :
          \A i, j \in 1..Len(l) : l[i] = l[j] => i = j }

SchemaDefinitions ==
    { << TypeDef("Interface", "Node", <<>>, <<>>),
         TypeDef("Interface", "Entity", e, <<>>),
         TypeDef("Interface", "Resource", r, <<>>),
         TypeDef("Object", "User", u, <<>>),
         TypeDef("Object", "Product", p, <<>>) >> \o s :
        e \in ImplementsLists({"Node"}),
        r \in ImplementsLists({"Node", "Entity"}),
        u \in ImplementsLists(InterfaceNames),
        p \in ImplementsLists(InterfaceNames),
        s \in { <<>>,
                <<TypeDef("Union", "SearchResult", <<>>, <<"User">>)>>,
                <<TypeDef("Union", "SearchResult", <<>>, <<"Product", "User">>)>> } }

Reversed(s) == [i \in 1..Len(s) |-> s[Len(s) + 1 - i]]

\* The state at the head of the for loop, ordered_types collected.
InitPossible ==
    /\ parent_group = FetchGroup_init("accounts")
    /\ groups = <<>>
    /\ groups_map = <<>>
    /\ returned = <<>>
    /\ requests = <<>>
    /\ ncalls = 0
    /\ panicked = FALSE
    /\ merge_fields = <<>>
    /\ merge_result = <<>>
    /\ merge_again = <<>>
    /\ merge_pc = "input"
    /\ \E s \in SchemaDefinitions : schema = s \/ schema = Reversed(s)
    /\ implementing_types = <<>>
    /\ td = 1
    /\ queue = <<>>
    /\ bpt_pc = "for"

\* for td in ordered_types, TypeDefinition::Union
ForUnion ==
    /\ bpt_pc = "for"
    /\ td <= Len(schema)
    /\ schema[td].kind = "Union"
    /\ implementing_types' = hash_insert(implementing_types, schema[td].name,
                                         schema[td].types)
    /\ td' = td + 1
    /\ UNCHANGED <<schema, queue, bpt_pc>>
    /\ UNCHANGED selectorVars
    /\ UNCHANGED mergeVars

\* for td in ordered_types, TypeDefinition::Object
ForObject ==
    /\ bpt_pc = "for"
    /\ td <= Len(schema)
    /\ schema[td].kind = "Object"
    /\ implementing_types' = hash_insert(implementing_types, schema[td].name,
                                         <<schema[td].name>>)
    /\ IF schema[td].implements_interfaces # <<>>
       THEN /\ queue' = schema[td].implements_interfaces
            /\ bpt_pc' = "while"
            /\ UNCHANGED td
       ELSE /\ td' = td + 1
            /\ UNCHANGED <<queue, bpt_pc>>
    /\ UNCHANGED schema
    /\ UNCHANGED selectorVars
    /\ UNCHANGED mergeVars

\* for td in ordered_types, any other definition
ForOther ==
    /\ bpt_pc = "for"
    /\ td <= Len(schema)
    /\ schema[td].kind \notin {"Union", "Object"}
    /\ td' = td + 1
    /\ UNCHANGED <<schema, implementing_types, queue, bpt_pc>>
    /\ UNCHANGED selectorVars
    /\ UNCHANGED mergeVars

\* The body of the while loop for the object obj: the map and the queue after it.
WhileBody(obj, iface, map, q) ==
    [map   |-> [hash_entry_or_insert_with(map, iface, <<>>)
                    EXCEPT ![iface] = Append(@, obj)],
     queue |-> Tail(q) \o names_to_types(schema, iface).implements_interfaces]

\* while !queue.is_empty(): one iteration
While ==
    /\ bpt_pc = "while"
    /\ queue # <<>>
    /\ LET r == WhileBody(schema[td].name, Head(queue), implementing_types, queue)
       IN  /\ implementing_types' = r.map
           /\ queue' = r.queue
    /\ UNCHANGED <<schema, td, bpt_pc>>
    /\ UNCHANGED selectorVars
    /\ UNCHANGED mergeVars

\* while !queue.is_empty(): the queue is empty, on to the next definition
WhileExit ==
    /\ bpt_pc = "while"
    /\ queue = <<>>
    /\ td' = td + 1
    /\ bpt_pc' = "for"
    /\ UNCHANGED <<schema, implementing_types, queue>>
    /\ UNCHANGED selectorVars
    /\ UNCHANGED mergeVars

\* The for loop is over: implementing_types is returned.
ReturnPossibleTypes ==
    /\ bpt_pc = "for"
    /\ td > Len(schema)
    /\ bpt_pc' = "returned"
    /\ UNCHANGED <<schema, implementing_types, td, queue>>
    /\ UNCHANGED selectorVars
    /\ UNCHANGED mergeVars

NextPossible ==
    \/ ForUnion
    \/ ForObject
    \/ ForOther
    \/ While
    \/ WhileExit
    \/ ReturnPossibleTypes

SpecPossible == InitPossible /\ [][NextPossible]_vars

(***************************************************************************)
(* Helpers of the property of build_possible_types.                        *)
(***************************************************************************)
\* How many times x is in the list.
Count(seq, x) == Cardinality({ i \in 1..Len(seq) : seq[i] = x })

\* The list the returned map holds under a name, empty if it holds none.
ListOf(name) ==
    IF name \in DOMAIN implementing_types THEN implementing_types[name] ELSE <<>>

\* The interfaces a type implements, directly or through an interface.
RECURSIVE Implemented(_, _)
Implemented(s, name) ==
    LET direct == Elems(names_to_types(s, name).implements_interfaces)
    IN  direct \cup UNION { Implemented(s, i) : i \in direct }

ObjectsOf(s) == { s[i].name : i \in { k \in 1..Len(s) : s[k].kind = "Object" } }

\* The number of ways that lead from a type to an interface along the
\* declarations, the interfaces of a declaration taken one at a time.
RECURSIVE Paths(_, _, _)
Paths(s, name, iface) ==
    LET direct == names_to_types(s, name).implements_interfaces
        through(i) == (IF direct[i] = iface THEN 1 ELSE 0) + Paths(s, direct[i], iface)
        sum[n \in 0..Len(direct)] == IF n = 0 THEN 0 ELSE sum[n - 1] + through(n)
    IN  sum[Len(direct)]

(***************************************************************************)
(* C21  build_possible_types, on a schema whose implements relation has no *)
(* cycle, returns a map in which each object type is exactly once in the   *)
(* list of every interface it implements, directly or through another      *)
(* interface, in no other interface's list, and alone in the list under    *)
(* its own name; this also when the object declares an interface together  *)
(* with that interface's parent, or reaches an interface along two paths.  *)
(* (That the call returns at all is not part of this formula: each         *)
(* iteration of the while loop shortens the paths left to walk, and every  *)
(* run of the model ends in the state "returned".)                         *)
(***************************************************************************)
C21_ExactlyOnce ==
    bpt_pc = "returned" =>
        \A obj \in ObjectsOf(schema) :
            /\ \A iface \in InterfaceNames :
                   Count(ListOf(iface), obj) =
                       IF iface \in Implemented(schema, obj) THEN 1 ELSE 0
            /\ ListOf(obj) = <<obj>>

\* What the map returned does hold: an object is in the list of an
\* interface once for each way that leads from the object to the interface,
\* so at least once for an interface it implements and never for another;
\* it is alone under its own name.
PossibleTypesPerPath ==
    bpt_pc = "returned" =>
        \A obj \in ObjectsOf(schema) :
            /\ \A iface \in InterfaceNames :
                   Count(ListOf(iface), obj) = Paths(schema, obj, iface)
            /\ ListOf(obj) = <<obj>>

\* User declares Entity and Node, Entity declares Node, and the map
\* returned holds User twice under Node.
PossibleTypesRepeat ==
    /\ bpt_pc = "returned"
    /\ names_to_types(schema, "User").implements_interfaces = <<"Entity", "Node">>
    /\ names_to_types(schema, "Entity").implements_interfaces = <<"Node">>
    /\ Count(ListOf("Node"), "User") = 2

====
